---- MODULE Spec2Model ----
(***************************************************************************)
(* Model of src/scraper.py: WebsiteScraper.scrape_multiple_urls driving    *)
(* WebsiteScraper.scrape_single_url against the browser-automation         *)
(* runtime.  The scraper is one sequential process; pc is its position.    *)
(* Every call into the browser (construct, get, find_elements, clear,      *)
(* send_keys, execute_script, find_element, quit) is answered by the       *)
(* environment, which may return or raise.                                 *)
(***************************************************************************)
EXTENDS Integers, Sequences, FiniteSets, TLC

(* ------------------------------ bounds --------------------------------- *)
MaxUrls == 2
MaxElems == 2
MaxButtons == 1

(* ------------------------ program constants ---------------------------- *)
AnalysisTimeout == 45
PollSleep == 3
ImplicitWait == 10
DetectLen == 500
MinContent == 200

None == "<None>"

input_selectors ==
  << "input[type='url']", "input[placeholder*='http']",
     "input[placeholder*='website']", "input[placeholder*='URL']",
     "input[name*='url']", "input[id*='url']", "textarea",
     "input[type='text']" >>

submit_selectors ==
  << "button[type='submit']", "input[type='submit']", ".submit-btn",
     ".analyze-btn", "button" >>

text_searches ==
  << <<"A","n","a","l","y","z","e">>, <<"S","u","b","m","i","t">>,
     <<"S","t","a","r","t">>, <<"R","a","t","e">> >>

keywords == {"score", "analysis", "rating", "result", "report", "review"}

(* ------------------------- input strings ------------------------------- *)
(* A string handed to scrape_multiple_urls is a sequence of characters.    *)
Whitespace == {" ", "\t", "\n"}

UrlStrings == { <<>>, <<" ", "\t">>, <<"a">>, <<" ", "b", " ">> }

RECURSIVE LStrip(_)
LStrip(s) ==
  IF s = <<>> THEN <<>>
  ELSE IF Head(s) \in Whitespace THEN LStrip(Tail(s)) ELSE s

RECURSIVE RStrip(_)
RStrip(s) ==
  IF s = <<>> THEN <<>>
  ELSE IF s[Len(s)] \in Whitespace THEN RStrip(SubSeq(s, 1, Len(s) - 1))
       ELSE s

(* str.strip() *)
Strip(s) == RStrip(LStrip(s))

(* truth value of a str: non-empty *)
Truthy(s) == s # <<>>

(* the negation of: if url.strip()                                         *)
IsBlank_Unstripped(url) == ~Truthy(url)

IsBlank(url) == ~Truthy(Strip(url))

RECURSIVE SeqsUpTo(_, _)
SeqsUpTo(S, n) ==
  IF n = 0 THEN { <<>> }
  ELSE LET shorter == SeqsUpTo(S, n - 1)
       IN shorter \cup { Append(q, x) : q \in { r \in shorter : Len(r) = n - 1 }, x \in S }

(* ------------------------ browser environment -------------------------- *)
(* Messages a WebDriverException may carry; str(e) wraps them.  The empty  *)
(* message is the one that could leave result['error'] empty.              *)
DriverMsgs == { "" }

StrExc(m) == "Message: " \o m \o "\n"

(* Page body text: its length and the word (if any) it shows.              *)
TextLens == { MinContent, MinContent + 1, DetectLen + 1 }
TextWords == { "none", "Score" }
PageTexts ==
  { t \in [ len : TextLens, word : TextWords ] :
      t.len = MinContent + 1 => t.word = "none" }
EmptyText == [ len |-> 0, word |-> "none" ]

(* outcome of the final body read: not attempted yet, or it raised         *)
Unread == [ len |-> -1, word |-> "unread" ]
ReadRaised == [ len |-> -1, word |-> "raised" ]

Lower(w) == IF w = "Score" THEN "score" ELSE w

(* Elements returned by find_elements.  displayed = "raise" is an element  *)
(* whose is_displayed() call raises (stale element).                       *)
Labels == { <<"R","a","t","e">>, <<"r","a","t","e">> }
(* The code reads is_enabled() only of a displayed element and clicks only *)
(* a displayed and enabled one, so the flags it does not read are fixed.   *)
Elements ==
  { e \in [ displayed : {"yes", "no", "raise"}, enabled : BOOLEAN ] :
      e.displayed # "yes" => e.enabled }
Buttons ==
  { b \in [ displayed : {"yes", "no"}, enabled : BOOLEAN,
            clickable : BOOLEAN, label : Labels ] :
      /\ b.displayed # "yes" => b.enabled
      /\ ~(b.displayed = "yes" /\ b.enabled) =>
           b.clickable /\ b.label = <<"R","a","t","e">> }

(* a CSS lookup does not depend on the label                               *)
CssButtons == { b \in Buttons : b.label = <<"R","a","t","e">> }

(* Answer of driver.find_elements: it raises, or returns a list.           *)
Lookups(E, n) == { [ raises |-> TRUE, elems |-> <<>> ] } \cup
                 { [ raises |-> FALSE, elems |-> l ] : l \in SeqsUpTo(E, n) }

InputLookups == Lookups(Elements, MaxElems)
CssLookups == Lookups(CssButtons, MaxButtons)
TextLookups == Lookups(Buttons, MaxButtons)

(* ------------------------------ state ---------------------------------- *)
(* urls, i, results: argument, loop index and list of scrape_multiple_urls *)
(* driver: self.driver; sessions[s]: number of quit() calls on session s   *)
(* result, sel, input_element, submitted: locals of scrape_single_url      *)
(* elapsed: time.time() - start_time; polls: iterations of the wait loop   *)
(* ops: what the current request has done so far; calls[k]: calls of       *)
(* scrape_single_url for input k; delays: indices after which it slept     *)
(* page: what the browser showed in its latest answer (see NoPage)         *)
VARIABLES urls, i, results, pc, driver, sessions, result, sel,
          input_element, submitted, elapsed, polls, ops, calls, delays, page

vars == << urls, i, results, pc, driver, sessions, result, sel,
           input_element, submitted, elapsed, polls, ops, calls, delays, page >>

(* other_input: the loaded page shows a visible, enabled input that none   *)
(*   of the input_selectors matches (say input[type='email'])              *)
(* first_usable: position of the first displayed and enabled element in    *)
(*   the latest find_elements answer for an input selector, 0 if none      *)
(* word_button: the latest answer of the button lookup of a text search    *)
(*   showed a button for the searched word, letter case aside              *)
(* analysis: the latest polled body text was longer than 500 characters    *)
(*   and contained a keyword, letter case aside                            *)
NoPage == [ other_input |-> FALSE, first_usable |-> 0, word_button |-> FALSE,
            analysis |-> FALSE ]

NoOps == [ setups |-> 0, gets |-> 0, clears |-> 0, types |-> 0, clicks |-> 0,
           enters |-> 0, wait |-> "none", reads |-> 0, quits |-> 0,
           quit_errors |-> 0, final |-> Unread ]

(* self.driver is None / input_element is None; an element is known by    *)
(* its position in the answer of the lookup that returned it               *)
NoDriver == 0
NoElement == [ pos |-> 0 ]

NoResult == [ url |-> <<>>, status |-> None, content |-> EmptyText, error |-> None ]

Init ==
  /\ urls \in SeqsUpTo(UrlStrings, MaxUrls)
  /\ i = 0
  /\ results = <<>>
  /\ pc = "loop"
  /\ driver = NoDriver
  /\ sessions = <<>>
  /\ result = NoResult
  /\ sel = 0
  /\ input_element = NoElement
  /\ submitted = FALSE
  /\ elapsed = 0
  /\ polls = 0
  /\ ops = NoOps
  /\ calls = [ k \in 1..Len(urls) |-> 0 ]
  /\ delays = <<>>
  /\ page = NoPage

(* ------------------------- helpers of the code ------------------------- *)
(* for elem in elements: if elem.is_displayed() and elem.is_enabled()      *)
RECURSIVE ScanInput(_, _)
ScanInput(elems, k) ==
  IF k > Len(elems) THEN [ out |-> "none", pos |-> 0 ]
  ELSE IF elems[k].displayed = "raise" THEN [ out |-> "raise", pos |-> k ]
  ELSE IF elems[k].displayed = "yes" /\ elems[k].enabled
       THEN [ out |-> "found", pos |-> k ]
  ELSE ScanInput(elems, k + 1)

(* for button in buttons: if displayed and enabled: scroll, click, break   *)
RECURSIVE ScanButtons(_, _)
ScanButtons(buttons, k) ==
  IF k > Len(buttons) THEN [ out |-> "none", pos |-> 0 ]
  ELSE IF buttons[k].displayed = "raise" THEN [ out |-> "raise", pos |-> k ]
  ELSE IF buttons[k].displayed = "yes" /\ buttons[k].enabled
       THEN IF buttons[k].clickable THEN [ out |-> "clicked", pos |-> k ]
            ELSE [ out |-> "raise", pos |-> k ]
  ELSE ScanButtons(buttons, k + 1)

(* XPath contains(text(), t): case-sensitive substring test               *)
Contains(s, t) ==
  \E k \in 1..(Len(s) - Len(t) + 1) : SubSeq(s, k, k + Len(t) - 1) = t

XPathButtons(buttons, t) == SelectSeq(buttons, LAMBDA b : Contains(b.label, t))

(* len(final_content) > 200                                                *)
Sufficient_Inclusive(t) == t.len >= MinContent

Sufficient(t) == t.len > MinContent

(* variant: the keyword test without .lower()                             *)
AnalysisDetected_CaseSensitive(t) == t.len > DetectLen /\ t.word \in keywords

(* len(page_text) > 500 and any(keyword in page_text.lower() ...)          *)
AnalysisDetected(t) == t.len > DetectLen /\ Lower(t.word) \in keywords

Bump(field) == [ ops EXCEPT ![field] = @ + 1 ]

(* ------------------- what an answer of the browser shows --------------- *)
LowerChar(c) ==
  CASE c = "A" -> "a" [] c = "G" -> "g" [] c = "R" -> "r" [] c = "S" -> "s"
    [] OTHER -> c

LowerSeq(s) == [ k \in 1..Len(s) |-> LowerChar(s[k]) ]

UsableAt(elems) ==
  { k \in 1..Len(elems) : elems[k].displayed = "yes" /\ elems[k].enabled }

FirstUsable(r) ==
  IF r.raises \/ UsableAt(r.elems) = {} THEN 0
  ELSE CHOOSE k \in UsableAt(r.elems) : \A j \in UsableAt(r.elems) : k <= j

(* the first displayed and enabled button of the answer can be clicked and *)
(* its label contains the word t when letter case is ignored               *)
WordButton(r, t) ==
  /\ FirstUsable(r) > 0
  /\ r.elems[FirstUsable(r)].clickable
  /\ Contains(LowerSeq(r.elems[FirstUsable(r)].label), LowerSeq(t))

(* letter-case forms of a keyword that a page text may show               *)
KeywordForms == { "score", "Score", "SCORE" }

AnalysisText(t) == t.len >= DetectLen + 1 /\ t.word \in KeywordForms

(* locals of scrape_single_url, and what the page showed, are dropped      *)
(* after their last use                                                    *)
ClearLocals ==
  /\ sel' = 0
  /\ input_element' = NoElement
  /\ submitted' = FALSE
  /\ elapsed' = 0
  /\ polls' = 0
  /\ page' = NoPage

(* variant: the handler sets the status but forgets result['error']        *)
CaughtWithoutMessage(msg) ==
  /\ result' = [ result EXCEPT !.status = "error" ]
  /\ pc' = "cleanup"
  /\ ClearLocals

(* variant: the raising statement is outside the try, the exception leaves *)
(* scrape_single_url and scrape_multiple_urls                              *)
Propagated(msg) ==
  /\ pc' = "aborted"
  /\ UNCHANGED result
  /\ ClearLocals

(* except Exception as e: result['status'] = 'error'; result['error'] = str(e) *)
Caught(msg) ==
  /\ result' = [ result EXCEPT !.status = "error", !.error = msg ]
  /\ pc' = "cleanup"
  /\ ClearLocals

(* ------------------------------ actions -------------------------------- *)
(* scrape_multiple_urls: loop head, blank test, call of scrape_single_url  *)
LoopStep ==
  /\ pc = "loop"
  /\ IF i >= Len(urls)
     THEN /\ pc' = "done"
          /\ UNCHANGED << i, result, calls, ops >>
     ELSE IF IsBlank(urls[i + 1])
     THEN /\ i' = i + 1
          /\ UNCHANGED << pc, result, calls, ops >>
     ELSE /\ result' = [ url |-> Strip(urls[i + 1]), status |-> "error",
                         content |-> EmptyText, error |-> None ]
          /\ calls' = [ calls EXCEPT ![i + 1] = @ + 1 ]
          /\ ops' = NoOps
          /\ pc' = "setup"
          /\ UNCHANGED i
  /\ UNCHANGED << urls, results, driver, sessions, sel, input_element,
                  submitted, elapsed, polls, delays, page >>

(* _setup_driver, called from scrape_single_url                            *)
SetupDriver ==
  /\ pc = "setup"
  /\ ops' = Bump("setups")
  /\ \E out \in {"ctor_raises", "config_raises", "ok"}, m \in DriverMsgs :
       CASE out = "ctor_raises" ->
              /\ UNCHANGED << driver, sessions >>
              /\ Caught("Failed to initialize Chrome: " \o StrExc(m))
         [] out = "config_raises" ->
              /\ sessions' = Append(sessions, 0)
              /\ driver' = Len(sessions) + 1
              /\ Caught("Failed to initialize Chrome: " \o StrExc(m))
         [] out = "ok" ->
              /\ sessions' = Append(sessions, 0)
              /\ driver' = Len(sessions) + 1
              /\ pc' = "navigate"
              /\ UNCHANGED << result, sel, input_element, submitted, elapsed,
                              polls, page >>
  /\ UNCHANGED << urls, i, results, calls, delays >>

(* variant: the page is not loaded before the input search                *)
NavigateSkipped ==
  /\ pc = "navigate"
  /\ pc' = "locate"
  /\ sel' = 1
  /\ input_element' = NoElement
  /\ \E b \in BOOLEAN : page' = [ NoPage EXCEPT !.other_input = b ]
  /\ UNCHANGED << result, submitted, elapsed, polls, ops >>
  /\ UNCHANGED << urls, i, results, driver, sessions, calls, delays >>

(* self.driver.get(RATEMYSITE_URL)                                         *)
Navigate ==
  /\ pc = "navigate"
  /\ ops' = Bump("gets")
  /\ \/ /\ pc' = "locate"
        /\ sel' = 1
        /\ input_element' = NoElement
        /\ \E b \in BOOLEAN : page' = [ NoPage EXCEPT !.other_input = b ]
        /\ UNCHANGED << result, submitted, elapsed, polls >>
     \/ \E m \in DriverMsgs : Caught(StrExc(m))
  /\ UNCHANGED << urls, i, results, driver, sessions, calls, delays >>

(* one iteration of: for selector in input_selectors                       *)
LocateStep ==
  /\ pc = "locate"
  /\ sel \in 1..Len(input_selectors)
  /\ \E r \in InputLookups :
       LET scan == IF r.raises THEN [ out |-> "raise", pos |-> 0 ]
                   ELSE ScanInput(r.elems, 1)
           found == scan.out = "found"
       IN /\ input_element' = IF found THEN [ pos |-> scan.pos ]
                              ELSE input_element
          /\ page' = [ page EXCEPT !.first_usable = FirstUsable(r) ]
          /\ IF found \/ sel = Len(input_selectors)
             THEN pc' = "fill" /\ sel' = 0
             ELSE pc' = "locate" /\ sel' = sel + 1
  /\ UNCHANGED << urls, i, results, driver, sessions, result, submitted,
                  elapsed, polls, ops, calls, delays >>

(* variant: the missing-input check is absent and the pipeline goes on    *)
FillUnchecked ==
  /\ pc = "fill"
  /\ ops' = [ ops EXCEPT !.clears = @ + 1, !.types = @ + 1 ]
  /\ pc' = "submit_css"
  /\ sel' = 1
  /\ submitted' = FALSE
  /\ page' = NoPage
  /\ UNCHANGED << result, input_element, elapsed, polls >>
  /\ UNCHANGED << urls, i, results, driver, sessions, calls, delays >>

(* if not input_element: raise; input_element.clear(); send_keys(target)   *)
Fill ==
  /\ pc = "fill"
  /\ IF input_element = NoElement
     THEN /\ Caught("Could not find URL input field on RateMySite")
          /\ UNCHANGED ops
     ELSE \E out \in {"clear_raises", "send_raises", "ok"}, m \in DriverMsgs :
            CASE out = "clear_raises" ->
                   /\ ops' = Bump("clears")
                   /\ Caught(StrExc(m))
              [] out = "send_raises" ->
                   /\ ops' = [ ops EXCEPT !.clears = @ + 1, !.types = @ + 1 ]
                   /\ Caught(StrExc(m))
              [] out = "ok" ->
                   /\ ops' = [ ops EXCEPT !.clears = @ + 1, !.types = @ + 1 ]
                   /\ pc' = "submit_css"
                   /\ sel' = 1
                   /\ submitted' = FALSE
                   /\ page' = NoPage
                   /\ UNCHANGED << result, input_element, elapsed, polls >>
  /\ UNCHANGED << urls, i, results, driver, sessions, calls, delays >>

(* one iteration of: for selector in submit_selectors                      *)
SubmitCssStep ==
  /\ pc = "submit_css"
  /\ sel \in 1..Len(submit_selectors)
  /\ \E r \in CssLookups :
       LET scan == IF r.raises THEN [ out |-> "raise", pos |-> 0 ]
                   ELSE ScanButtons(r.elems, 1)
           clicked == scan.out = "clicked"
       IN /\ submitted' = clicked
          /\ ops' = IF clicked THEN Bump("clicks") ELSE ops
          /\ IF clicked \/ sel = Len(submit_selectors)
             THEN pc' = "submit_text" /\ sel' = 1
             ELSE pc' = "submit_css" /\ sel' = sel + 1
  /\ UNCHANGED << urls, i, results, driver, sessions, result, input_element,
                  elapsed, polls, calls, delays, page >>

(* if not submitted: one iteration of: for text in text_searches           *)
SubmitTextStep ==
  /\ pc = "submit_text"
  /\ IF submitted
     THEN /\ pc' = "submit_enter"
          /\ sel' = 0
          /\ UNCHANGED << submitted, ops, page >>
     ELSE /\ sel \in 1..Len(text_searches)
          /\ \E r \in TextLookups :
               LET scan == IF r.raises THEN [ out |-> "raise", pos |-> 0 ]
                           ELSE ScanButtons(XPathButtons(r.elems, text_searches[sel]), 1)
                   clicked == scan.out = "clicked"
               IN /\ submitted' = clicked
                  /\ ops' = IF clicked THEN Bump("clicks") ELSE ops
                  /\ page' = [ NoPage EXCEPT
                                 !.word_button = WordButton(r, text_searches[sel]) ]
                  /\ IF clicked \/ sel = Len(text_searches)
                     THEN pc' = "submit_enter" /\ sel' = 0
                     ELSE pc' = "submit_text" /\ sel' = sel + 1
  /\ UNCHANGED << urls, i, results, driver, sessions, result, input_element,
                  elapsed, polls, calls, delays >>

(* variant: the "if not submitted" guard of the Enter keystroke is absent  *)
SubmitEnterAlways ==
  /\ pc = "submit_enter"
  /\ ops' = Bump("enters")
  /\ \/ /\ pc' = "wait"
        /\ ClearLocals
        /\ UNCHANGED result
     \/ \E m \in DriverMsgs : Caught(StrExc(m))
  /\ UNCHANGED << urls, i, results, driver, sessions, calls, delays >>

(* if not submitted: input_element.send_keys("\n"); start_time = time.time() *)
SubmitEnter ==
  /\ pc = "submit_enter"
  /\ IF submitted
     THEN /\ pc' = "wait"
          /\ ClearLocals
          /\ UNCHANGED << result, ops >>
     ELSE /\ ops' = Bump("enters")
          /\ \/ /\ pc' = "wait"
                /\ ClearLocals
                /\ UNCHANGED result
             \/ \E m \in DriverMsgs : Caught(StrExc(m))
  /\ UNCHANGED << urls, i, results, driver, sessions, calls, delays >>

(* one test of the while condition and, if it holds, one loop body         *)
WaitStep ==
  /\ pc = "wait"
  /\ IF elapsed < AnalysisTimeout
     THEN \E took \in {0, ImplicitWait} :
            \/ /\ pc' = "wait"
               /\ polls' = polls + 1
               /\ elapsed' = elapsed + PollSleep + took
               /\ page' = NoPage
               /\ UNCHANGED ops
            \/ \E t \in PageTexts :
                 /\ page' = [ NoPage EXCEPT !.analysis = AnalysisText(t) ]
                 /\ IF AnalysisDetected(t)
                    THEN /\ pc' = "extract"
                         /\ ops' = [ ops EXCEPT !.wait = "detected" ]
                         /\ polls' = 0
                         /\ elapsed' = 0
                    ELSE /\ pc' = "wait"
                         /\ polls' = polls + 1
                         /\ elapsed' = elapsed + PollSleep + took
                         /\ UNCHANGED ops
     ELSE /\ pc' = "extract"
          /\ ops' = [ ops EXCEPT !.wait = "timeout" ]
          /\ polls' = 0
          /\ elapsed' = 0
          /\ page' = NoPage
  /\ UNCHANGED << urls, i, results, driver, sessions, result, sel,
                  input_element, submitted, calls, delays >>

(* final_content = body.text; success if longer than 200, else raise       *)
Extract ==
  /\ pc = "extract"
  /\ \/ /\ ops' = [ ops EXCEPT !.reads = @ + 1, !.final = ReadRaised ]
        /\ \E m \in DriverMsgs :
             Caught("Failed to extract analysis content: " \o StrExc(m))
     \/ \E t \in PageTexts :
          /\ ops' = [ ops EXCEPT !.reads = @ + 1, !.final = t ]
          /\ IF Sufficient(t)
             THEN /\ result' = [ result EXCEPT !.content = t, !.status = "success" ]
                  /\ pc' = "cleanup"
                  /\ ClearLocals
             ELSE Caught("Failed to extract analysis content: Insufficient content extracted - analysis may not have completed")
  /\ UNCHANGED << urls, i, results, driver, sessions, calls, delays >>

(* variant: quit only on the success path, no finally                     *)
CleanupOnSuccessOnly ==
  /\ pc = "cleanup"
  /\ IF driver # NoDriver /\ result.status = "success"
     THEN /\ sessions' = [ sessions EXCEPT ![driver] = @ + 1 ]
          /\ \E raised \in BOOLEAN :
               ops' = [ ops EXCEPT !.quits = @ + 1,
                                   !.quit_errors = @ + (IF raised THEN 1 ELSE 0) ]
          /\ driver' = NoDriver
     ELSE UNCHANGED << sessions, ops, driver >>
  /\ pc' = "return"
  /\ UNCHANGED << urls, i, results, result, sel, input_element, submitted,
                  elapsed, polls, calls, delays, page >>

(* variant: an exception of quit() is not caught locally but recorded as   *)
(* the request's error, and self.driver is left set                        *)
CleanupMasking ==
  /\ pc = "cleanup"
  /\ IF driver # NoDriver
     THEN /\ sessions' = [ sessions EXCEPT ![driver] = @ + 1 ]
          /\ \E raised \in BOOLEAN :
               /\ ops' = [ ops EXCEPT !.quits = @ + 1,
                                      !.quit_errors = @ + (IF raised THEN 1 ELSE 0) ]
               /\ IF raised
                  THEN /\ result' = [ result EXCEPT !.status = "error",
                                                    !.error = StrExc("") ]
                       /\ UNCHANGED driver
                  ELSE /\ driver' = NoDriver
                       /\ UNCHANGED result
     ELSE UNCHANGED << sessions, ops, driver, result >>
  /\ pc' = "return"
  /\ UNCHANGED << urls, i, results, sel, input_element, submitted,
                  elapsed, polls, calls, delays, page >>

(* variant: self.driver = None is missing                                  *)
CleanupKeepsDriver ==
  /\ pc = "cleanup"
  /\ IF driver # NoDriver
     THEN /\ sessions' = [ sessions EXCEPT ![driver] = @ + 1 ]
          /\ \E raised \in BOOLEAN :
               ops' = [ ops EXCEPT !.quits = @ + 1,
                                   !.quit_errors = @ + (IF raised THEN 1 ELSE 0) ]
     ELSE UNCHANGED << sessions, ops >>
  /\ UNCHANGED driver
  /\ pc' = "return"
  /\ UNCHANGED << urls, i, results, result, sel, input_element, submitted,
                  elapsed, polls, calls, delays, page >>

(* finally: if self.driver: try quit() except: print; self.driver = None   *)
Cleanup ==
  /\ pc = "cleanup"
  /\ IF driver # NoDriver
     THEN /\ sessions' = [ sessions EXCEPT ![driver] = @ + 1 ]
          /\ \E raised \in BOOLEAN :
               ops' = [ ops EXCEPT !.quits = @ + 1,
                                   !.quit_errors = @ + (IF raised THEN 1 ELSE 0) ]
          /\ driver' = NoDriver
     ELSE UNCHANGED << sessions, ops, driver >>
  /\ pc' = "return"
  /\ UNCHANGED << urls, i, results, result, sel, input_element, submitted,
                  elapsed, polls, calls, delays, page >>

(* variant: a URL whose attempt ended in error is tried again              *)
ReturnRetrying ==
  /\ pc = "return"
  /\ IF result.status = "error" /\ calls[i + 1] < 2
     THEN UNCHANGED << results, delays, i >>
     ELSE /\ results' = Append(results, result)
          /\ delays' = IF i < Len(urls) - 1 THEN Append(delays, i) ELSE delays
          /\ i' = i + 1
  /\ result' = NoResult
  /\ ops' = NoOps
  /\ pc' = "loop"
  /\ UNCHANGED << urls, driver, sessions, sel, input_element, submitted,
                  elapsed, polls, calls, page >>

(* return result; results.append(result); if i < len(urls) - 1: sleep(2)   *)
Return ==
  /\ pc = "return"
  /\ results' = Append(results, result)
  /\ delays' = IF i < Len(urls) - 1 THEN Append(delays, i) ELSE delays
  /\ i' = i + 1
  /\ result' = NoResult
  /\ ops' = NoOps
  /\ pc' = "loop"
  /\ UNCHANGED << urls, driver, sessions, sel, input_element, submitted,
                  elapsed, polls, calls, page >>

Next ==
  \/ LoopStep
  \/ SetupDriver
  \/ Navigate
  \/ LocateStep
  \/ Fill
  \/ SubmitCssStep
  \/ SubmitTextStep
  \/ SubmitEnter
  \/ WaitStep
  \/ Extract
  \/ Cleanup
  \/ Return

Spec == Init /\ [][Next]_vars

(* every call of the code returns or raises and the interpreter goes on   *)
(* to the next statement: a step that can be taken is taken                *)
FairSpec == Spec /\ WF_vars(Next)

TypeOK ==
  /\ pc \in {"loop", "setup", "navigate", "locate", "fill", "submit_css",
             "submit_text", "submit_enter", "wait", "extract", "cleanup",
             "return", "done"}
  /\ i \in 0..Len(urls)
  /\ driver \in 0..Len(sessions)

(* ----------------------- vocabulary of the claims ---------------------- *)
NonSpaceAt(u) == { k \in 1..Len(u) : u[k] \notin Whitespace }

SetMin(S) == CHOOSE x \in S : \A y \in S : x <= y
SetMax(S) == CHOOSE x \in S : \A y \in S : x >= y

(* an entry with its surrounding whitespace removed, by position           *)
Trimmed(u) ==
  IF NonSpaceAt(u) = {} THEN <<>>
  ELSE SubSeq(u, SetMin(NonSpaceAt(u)), SetMax(NonSpaceAt(u)))

NonBlank(u) == NonSpaceAt(u) # {}

(* the trimmed non-blank entries among the first n inputs, in input order  *)
RECURSIVE TrimmedNonBlank(_)
TrimmedNonBlank(n) ==
  IF n = 0 THEN <<>>
  ELSE IF NonBlank(urls[n]) THEN Append(TrimmedNonBlank(n - 1), Trimmed(urls[n]))
       ELSE TrimmedNonBlank(n - 1)

ResultUrls == [ k \in 1..Len(results) |-> results[k].url ]

LiveSessions == { s \in 1..Len(sessions) : sessions[s] = 0 }

NoInputMessage == "Could not find URL input field on RateMySite"

FailureMessages ==
  { StrExc(m) : m \in DriverMsgs } \cup
  { "Failed to initialize Chrome: " \o StrExc(m) : m \in DriverMsgs } \cup
  { "Failed to extract analysis content: " \o StrExc(m) : m \in DriverMsgs } \cup
  { NoInputMessage,
    "Failed to extract analysis content: Insufficient content extracted - analysis may not have completed" }

(* ------------------------------- C1 ------------------------------------ *)
(* C1: whenever the batch loop stands between two entries, and when it has *)
(* returned, the 'url' fields of the results are exactly the trimmed       *)
(* non-blank entries among the inputs consumed so far, in input order,     *)
(* whatever the status of each result.                                     *)
C1_OneResultPerNonBlank ==
  pc \in {"loop", "done"} => ResultUrls = TrimmedNonBlank(i)

C1_Witness ==
  /\ pc = "done"
  /\ Len(urls) = 2
  /\ ~NonBlank(urls[1]) /\ urls[1] # <<>>
  /\ urls[2] # Trimmed(urls[2])
  /\ Len(results) = 1
  /\ results[1].status = "error"

(* ------------------------------- C2 ------------------------------------ *)
(* C2: every result that scrape_single_url returns, and every result in    *)
(* the output list, has status error or success; an error result has empty *)
(* content and a non-empty error message, a success result has non-empty   *)
(* content.                                                                *)
WellFormed(r) ==
  /\ r.status \in {"error", "success"}
  /\ r.status = "error" => r.content = EmptyText /\ r.error # None /\ r.error # ""
  /\ r.status = "success" => r.content.len > 0

C2_ResultWellFormed ==
  /\ pc = "return" => WellFormed(result)
  /\ \A k \in 1..Len(results) : WellFormed(results[k])

C2_Witness ==
  /\ pc = "return"
  /\ result.status = "error"
  /\ result.error = StrExc("")
  /\ ops.types = 1
  /\ Len(results) = 1
  /\ results[1].status = "success"

(* ------------------------------- C3 ------------------------------------ *)
(* C3: no exception leaves scrape_single_url: a request that did not       *)
(* succeed reaches cleanup with status error and the message of the        *)
(* failure, and when scrape_multiple_urls has returned every non-blank     *)
(* entry has been processed, however many of the requests failed.          *)
C3_FailureDoesNotAbort ==
  /\ pc # "aborted"
  /\ pc \in {"cleanup", "return"} /\ result.status # "success"
       => result.status = "error" /\ result.error \in FailureMessages
  /\ pc = "done" =>
       /\ \A k \in 1..Len(urls) : NonBlank(urls[k]) => calls[k] = 1
       /\ Len(results) = Cardinality({ k \in 1..Len(urls) : NonBlank(urls[k]) })

C3_Witness ==
  /\ pc = "done"
  /\ Len(results) = 2
  /\ results[1].status = "error"
  /\ results[1].error = "Failed to initialize Chrome: " \o StrExc("")
  /\ results[2].status = "success"

(* ------------------------------- C4 ------------------------------------ *)
(* C4: when scrape_single_url returns, quit has been called on every       *)
(* session acquired so far and self.driver is None; at most one session    *)
(* is live (acquired, quit not yet called) at any time, it is the one      *)
(* self.driver holds, and none is live between requests.                   *)
C4_SessionReleased ==
  /\ pc = "return" => driver = NoDriver /\ LiveSessions = {}
  /\ Cardinality(LiveSessions) <= 1
  /\ LiveSessions = IF driver = NoDriver THEN {} ELSE {driver}
  /\ pc \in {"loop", "setup", "done"} => LiveSessions = {}
  /\ \A s \in 1..Len(sessions) : sessions[s] <= 1

C4_Witness ==
  /\ pc = "return"
  /\ result.error = "Failed to initialize Chrome: " \o StrExc("")
  /\ ops.quits = 1
  /\ Len(sessions) = 2
  /\ LiveSessions = {}

(* ------------------------------- C5 ------------------------------------ *)
(* C5: a step in which quit raises leaves the result as computed, sets     *)
(* self.driver to None and returns; the result is then appended unchanged  *)
(* and the batch loop moves to the next entry.                             *)
C5_CleanupFailureSwallowed ==
  [][ /\ ops'.quit_errors > ops.quit_errors
        => result' = result /\ driver' = NoDriver /\ pc' = "return"
      /\ pc = "return" /\ ops.quit_errors > 0
        => results' = Append(results, result) /\ pc' = "loop" /\ i' = i + 1
    ]_vars

C5_Witness ==
  /\ pc = "return"
  /\ ops.quit_errors = 1
  /\ result.status = "success"
  /\ driver = NoDriver
  /\ i < Len(urls) - 1
  /\ NonBlank(urls[i + 2])

(* ------------------------------- C6 ------------------------------------ *)
(* C6: once the try body is left, the status is success exactly when the   *)
(* final body read returned a text longer than 200 characters, and then    *)
(* the content is that text; in every other case the status is error and   *)
(* the content is empty.                                                   *)
C6_InsufficientIsError ==
  pc \in {"cleanup", "return"} =>
    /\ result.status = "success" <=> ops.final.len > 200
    /\ result.status = "success" => result.content = ops.final
    /\ result.status # "success" => result.status = "error" /\ result.content = EmptyText

C6_Witness ==
  /\ pc = "return"
  /\ ops.wait = "detected"
  /\ ops.final = [ len |-> 200, word |-> "Score" ]
  /\ result.status = "error"

(* ------------------------------- C7 ------------------------------------ *)
(* C7: no input entry is passed to scrape_single_url more than once, a     *)
(* blank entry never; a request makes exactly one session-acquisition      *)
(* attempt and at most one navigation; when the batch has returned every   *)
(* non-blank entry has been attempted exactly once.                        *)
C7_SingleAttempt ==
  /\ \A k \in 1..Len(urls) : calls[k] <= 1 /\ (~NonBlank(urls[k]) => calls[k] = 0)
  /\ ops.setups <= 1 /\ ops.gets <= 1
  /\ pc \in {"cleanup", "return"} => ops.setups = 1
  /\ Len(sessions) <= Cardinality({ k \in 1..Len(urls) : calls[k] > 0 })
  /\ pc = "done" => \A k \in 1..Len(urls) : NonBlank(urls[k]) => calls[k] = 1

C7_Witness ==
  /\ pc = "done"
  /\ Len(results) = 2
  /\ results[1].status = "error"
  /\ results[2].status = "error"
  /\ calls = [ k \in 1..2 |-> 1 ]
  /\ Len(sessions) = 2

(* ------------------------------- C8 ------------------------------------ *)
(* C8: when the batch has returned, the pacing delays are exactly those    *)
(* after a processed entry that is followed by another non-blank entry:    *)
(* one between two consecutive requests, none after the last request.      *)
HasLaterRequest(k) == \E j \in (k + 1)..Len(urls) : NonBlank(urls[j])

RECURSIVE DelaysBetween(_)
DelaysBetween(n) ==
  IF n = 0 THEN <<>>
  ELSE IF NonBlank(urls[n]) /\ HasLaterRequest(n)
       THEN Append(DelaysBetween(n - 1), n - 1)
       ELSE DelaysBetween(n - 1)

C8_DelayOnlyBetweenRequests ==
  pc = "done" => delays = DelaysBetween(Len(urls))

(* ------------------------------- C9 ------------------------------------ *)
(* C9: a step changes the output list only by appending the result of the  *)
(* request that returns, so earlier records stay as they are; and every    *)
(* request starts from the same scraper state (self.driver None, fresh     *)
(* result with status error, no locals), whatever the earlier results.     *)
C9_FailuresAreLocal ==
  /\ [][ results' = results
         \/ (pc = "return" /\ results' = Append(results, result)) ]_vars
  /\ [](pc = "setup" =>
          /\ driver = NoDriver
          /\ LiveSessions = {}
          /\ result = [ url |-> Trimmed(urls[i + 1]), status |-> "error",
                        content |-> EmptyText, error |-> None ]
          /\ sel = 0 /\ input_element = NoElement /\ ~submitted
          /\ elapsed = 0 /\ polls = 0 /\ page = NoPage
          /\ ops = NoOps)

C9_Witness ==
  /\ pc = "setup"
  /\ Len(results) = 1
  /\ results[1].status = "error"
  /\ results[1].error = StrExc("")

(* ------------------------------- C10 ----------------------------------- *)
(* C10: when the input search ends without an element, the next step       *)
(* records status error with the message that no input field was found;    *)
(* in that request nothing is cleared or typed, nothing is clicked, no     *)
(* Enter is sent, the page is neither polled nor read, and the session is  *)
(* quit before the request returns.                                        *)
C10_NoInputField ==
  /\ [][ pc = "fill" /\ input_element = NoElement
           => /\ pc' = "cleanup"
              /\ result'.status = "error"
              /\ result'.error = NoInputMessage
              /\ ops' = ops ]_vars
  /\ [](pc \in {"cleanup", "return"} /\ result.error = NoInputMessage
          => /\ result.status = "error"
             /\ ops.clears = 0 /\ ops.types = 0 /\ ops.clicks = 0
             /\ ops.enters = 0 /\ ops.wait = "none" /\ ops.reads = 0
             /\ ops.gets = 1)
  /\ [](pc = "return" /\ result.error = NoInputMessage
          => driver = NoDriver /\ ops.quits = 1 /\ LiveSessions = {})

C10_Witness ==
  /\ pc = "return"
  /\ result.error = NoInputMessage
  /\ result.status = "error"
  /\ ops.quits = 1
  /\ ops.types = 0

(* ------------------------------- C11 ----------------------------------- *)
(* C11: when the search through input_selectors ends without an element    *)
(* and the page shows a visible, enabled input of another kind, the next   *)
(* step takes that input and the request goes on to the submit stage.      *)
C11_FallbackToAnyInput ==
  [][ pc = "fill" /\ input_element = NoElement /\ page.other_input
        => pc' = "submit_css" /\ ops'.types = 1 ]_vars

(* ------------------------------- C12 ----------------------------------- *)
(* C12: a lookup step for an input selector whose answer holds a displayed *)
(* and enabled element chooses the first such element and ends the search; *)
(* a step whose answer holds none (the lookup raised, or every element is  *)
(* hidden or disabled) chooses nothing and goes to the next selector, or   *)
(* ends the search after the last one; no step fails the request.          *)
C12_FirstUsableInOrder ==
  [][ pc = "locate" =>
        /\ page'.first_usable > 0 =>
             /\ input_element' = [ pos |-> page'.first_usable ]
             /\ pc' = "fill"
        /\ page'.first_usable = 0 =>
             /\ input_element' = NoElement
             /\ IF sel < Len(input_selectors)
                THEN pc' = "locate" /\ sel' = sel + 1
                ELSE pc' = "fill"
        /\ result' = result ]_vars

(* ------------------------------- C13 ----------------------------------- *)
(* C13 as stated: every request that reaches the submit stage leaves it    *)
(* for the wait loop with exactly one submission done, a click or an Enter *)
(* keystroke.                                                              *)
C13_ExactlyOneSubmission ==
  [][ pc = "submit_enter"
        => pc' = "wait" /\ ops'.clicks + ops'.enters = 1 ]_vars

(* C13: the submit stage runs in strict precedence: a CSS step never sends *)
(* Enter, a text step acts only if no CSS click succeeded and never sends  *)
(* Enter, and the Enter step acts only if no click of either kind          *)
(* succeeded; a request never makes more than one submission, one that     *)
(* enters the wait loop has made exactly one, and the only request that    *)
(* leaves the submit stage otherwise is one whose Enter keystroke raised:  *)
(* it has clicked nothing and ends with status error.                      *)
C13_SubmitPrecedence ==
  [][ /\ ops'.clicks + ops'.enters <= 1
      /\ ops'.clicks > ops.clicks =>
           /\ pc \in {"submit_css", "submit_text"}
           /\ ops.clicks = 0 /\ ops.enters = 0
           /\ submitted' /\ pc' \in {"submit_text", "submit_enter"}
      /\ pc = "submit_css" => ops'.enters = 0
      /\ pc = "submit_text" =>
           /\ ops'.enters = 0
           /\ ops.clicks = 1 => ops' = ops /\ pc' = "submit_enter"
      /\ ops'.enters > ops.enters =>
           pc = "submit_enter" /\ ops.clicks = 0 /\ ops.enters = 0
      /\ pc = "submit_enter" =>
           /\ ops.clicks = 1 => ops' = ops /\ pc' = "wait"
           /\ ops.clicks = 0 => ops'.enters = 1
           /\ pc' = "wait" => ops'.clicks + ops'.enters = 1
           /\ pc' # "wait" =>
                /\ pc' = "cleanup"
                /\ ops'.clicks = 0 /\ ops'.enters = 1
                /\ result'.status = "error" /\ result'.error = StrExc("")
      /\ pc' = "wait" => ops'.clicks + ops'.enters = 1
    ]_vars

C13_Witness ==
  /\ pc = "wait"
  /\ ops.enters = 1
  /\ ops.clicks = 0
  /\ polls = 1

(* ------------------------------- C14 ----------------------------------- *)
(* C14: a text-search step whose lookup answer shows a visible, enabled,   *)
(* clickable button with the searched word in its label, in any letter     *)
(* case, clicks it: the step ends with submitted set and one more click.   *)
C14_CaseInsensitiveText ==
  [][ pc = "submit_text" /\ ~submitted /\ page'.word_button
        => submitted' /\ ops'.clicks = ops.clicks + 1 ]_vars

(* ------------------------------- C15 ----------------------------------- *)
(* C15: every browser operation of a request (page load, input lookup,     *)
(* clear, type, click, Enter, poll, final read) is done on the session the *)
(* request acquired, after its acquisition and before its quit; the page   *)
(* is loaded once, before the input is looked up; the URL is typed only    *)
(* after the page load and the clear; a click or Enter comes only after    *)
(* the typing; polling starts only after the submission; the final read    *)
(* comes only after the submission and the wait loop; quit comes once,     *)
(* last, and nothing follows it but the return.                            *)
Did(field) == ops'[field] > ops[field]

OnLiveSession ==
  /\ driver # NoDriver
  /\ sessions[driver] = 0
  /\ ops.setups = 1
  /\ ops.quits = 0

C15_OrderedOnLiveSession ==
  [][ /\ Did("setups") => ops = NoOps /\ driver = NoDriver
      /\ pc \in {"navigate", "locate", "fill", "submit_css", "submit_text",
                  "submit_enter", "wait", "extract"}
           => OnLiveSession /\ driver' = driver /\ sessions' = sessions
      /\ Did("gets") => OnLiveSession /\ ops.gets = 0 /\ ops.clears = 0
      /\ pc = "locate" => ops.gets = 1 /\ ops.clears = 0 /\ ops.types = 0
      /\ Did("clears") => OnLiveSession /\ ops.gets = 1 /\ ops.types = 0
      /\ Did("types") =>
           /\ OnLiveSession
           /\ ops.gets = 1 /\ ops'.clears = 1
           /\ ops.clicks = 0 /\ ops.enters = 0
      /\ Did("clicks") \/ Did("enters") =>
           /\ OnLiveSession
           /\ ops.types = 1 /\ ops.wait = "none" /\ ops.reads = 0
      /\ pc = "wait" =>
           ops.clicks + ops.enters = 1 /\ ops.types = 1 /\ ops.reads = 0
      /\ Did("reads") =>
           /\ OnLiveSession
           /\ ops.clicks + ops.enters = 1
           /\ ops.wait \in {"detected", "timeout"}
           /\ ops.reads = 0
      /\ Did("quits") =>
           /\ OnLiveSession
           /\ sessions'[driver] = 1
           /\ pc' = "return"
      /\ ops.quits = 1 => pc = "return" /\ pc' = "loop"
    ]_vars

C15_Witness ==
  /\ pc = "return"
  /\ ops.setups = 1 /\ ops.gets = 1 /\ ops.clears = 1 /\ ops.types = 1
  /\ ops.clicks = 1 /\ ops.wait = "detected" /\ ops.reads = 1
  /\ ops.quits = 1
  /\ result.status = "success"

(* ------------------------------- C16 ----------------------------------- *)
(* C16: a request that has submitted leaves the wait loop and returns.     *)
(* Each iteration of the loop adds at least 3 seconds and is entered only  *)
(* while less than 45 seconds have elapsed, so there are at most 15 polls. *)
(* A poll whose text is longer than 500 characters and holds a keyword in  *)
(* any letter case ends the loop at once; a poll that raises, or shows no  *)
(* such text, only starts the next iteration; the loop ends otherwise only *)
(* when 45 seconds have elapsed.  No step of the loop changes the result.  *)
C16_WaitEnds ==
  /\ [](pc = "wait" => polls <= 15 /\ elapsed >= PollSleep * polls)
  /\ [][ pc = "wait" =>
           /\ pc' \in {"wait", "extract"}
           /\ result' = result
           /\ page'.analysis => pc' = "extract" /\ ops'.wait = "detected"
           /\ pc' = "wait" =>
                /\ elapsed < AnalysisTimeout
                /\ polls' = polls + 1
                /\ elapsed' >= elapsed + PollSleep
           /\ pc' = "extract" =>
                \/ page'.analysis /\ elapsed < AnalysisTimeout
                \/ elapsed >= AnalysisTimeout /\ ops'.wait = "timeout"
         ]_vars
  /\ (pc \in {"setup", "wait"}) ~> (pc = "return")

C16_Witness ==
  /\ pc = "wait"
  /\ polls = 15
  /\ elapsed = AnalysisTimeout

====
